---- MODULE Spec2Model ----
(***************************************************************************)
(* Result sinks and result channels of ndscan.experiment.result_channels.  *)
(*                                                                         *)
(* Sinks are receptacles with a retention policy; channels coerce a pushed *)
(* raw value to their type and forward it to the sink they reference.      *)
(* A push issued from kernel context is an asynchronous RPC: it is put in  *)
(* flight and its body runs later on the host, in issue order.             *)
(***************************************************************************)
EXTENDS Integers, Sequences, FiniteSets, TLC

\* Total number of push calls (on sinks and channels) explored in a run.
MaxPush == 3

\* Number of data points of a scan explored in a run.
MaxPoints == 2

(***************************************************************************)
(* Python values.  A float is kept in tenths (2.5 is n = 25), an int as    *)
(* itself, a str by its text; None is the Python None.                     *)
(***************************************************************************)
None == [t |-> "none", n |-> 0, s |-> ""]
PyFloat(tenths) == [t |-> "float", n |-> tenths, s |-> ""]
PyInt(i) == [t |-> "int", n |-> i, s |-> ""]
PyStr(text) == [t |-> "str", n |-> 0, s |-> text]

\* The raw values pushed in the model: a float, a numeric string, a
\* non-numeric string and None.
Val == {PyFloat(25), PyStr("3"), PyStr("abc"), None}

\* The outcome of a call: the exception it raised ("none": it returned) and
\* the value it returned.
Ok(v) == [exc |-> "none", val |-> v]
Raise(e) == [exc |-> e, val |-> None]

\* The strings Python's float() and int() parse, with the number they give.
NumericText == [x \in {"3"} |-> 3]

\* Python's float(value).
PyFloatOf(value) ==
    CASE value.t = "float" -> Ok(value)
      [] value.t = "int" -> Ok(PyFloat(value.n * 10))
      [] value.t = "str" -> IF value.s \in DOMAIN NumericText
                            THEN Ok(PyFloat(NumericText[value.s] * 10))
                            ELSE Raise("ValueError")
      [] OTHER -> Raise("TypeError")

\* Python's int(value): a float is truncated towards zero.
PyIntOf(value) ==
    CASE value.t = "float" -> Ok(PyInt(IF value.n >= 0 THEN value.n \div 10
                                       ELSE -((-value.n) \div 10)))
      [] value.t = "int" -> Ok(value)
      [] value.t = "str" -> IF value.s \in DOMAIN NumericText
                            THEN Ok(PyInt(NumericText[value.s]))
                            ELSE Raise("ValueError")
      [] OTHER -> Raise("TypeError")

\* The JSON text of the floats of the model.
FloatText == [x \in {25, 30} |-> IF x = 25 THEN "2.5" ELSE "3.0"]

\* The JSON text of the ints of the model.
IntText == [x \in {2, 3} |-> IF x = 2 THEN "2" ELSE "3"]

\* utils.dump_json(value): the value serialised as a JSON string.
dump_json(value) ==
    CASE value.t = "none" -> PyStr("null")
      [] value.t = "str" -> PyStr("\"" \o value.s \o "\"")
      [] value.t = "float" -> PyStr(FloatText[value.n])
      [] value.t = "int" -> PyStr(IntText[value.n])

ChannelTypes == {"FloatChannel", "IntChannel", "OpaqueChannel", "SubscanChannel"}
NumericTypes == {"FloatChannel", "IntChannel"}

\* Variant of FloatChannel._coerce_to_type with the fault of turning a value
\* float() refuses into 0.0.
FloatChannel_coerce_lenient(value) ==
    IF PyFloatOf(value).exc = "none" THEN PyFloatOf(value) ELSE Ok(PyFloat(0))

FloatChannel_coerce_to_type(value) == PyFloatOf(value)
IntChannel_coerce_to_type(value) == PyIntOf(value)
OpaqueChannel_coerce_to_type(value) == Ok(value)
SubscanChannel_coerce_to_type(value) == Ok(dump_json(value))

\* self._coerce_to_type(value), dispatched on the channel's class.
coerce_to_type(type, value) ==
    CASE type = "FloatChannel" -> FloatChannel_coerce_to_type(value)
      [] type = "IntChannel" -> IntChannel_coerce_to_type(value)
      [] type = "OpaqueChannel" -> OpaqueChannel_coerce_to_type(value)
      [] type = "SubscanChannel" -> SubscanChannel_coerce_to_type(value)

(***************************************************************************)
(* The dataset store of the host environment (HasEnvironment): one entry   *)
(* per key, absent until it is first set.                                  *)
(***************************************************************************)
AbsentDataset == [present |-> FALSE, value |-> None, broadcast |-> FALSE]

set_dataset(env, key, value, broadcast) ==
    [env EXCEPT ![key] = [present |-> TRUE, value |-> value,
                          broadcast |-> broadcast]]

append_to_dataset(env, key, value) ==
    [env EXCEPT ![key].value = Append(@, value)]

get_dataset(env, key) == env[key].value

(***************************************************************************)
(* Sinks.  A sink object is a record of its class (kind) and its fields; a *)
(* method is an operator from the object (and the dataset store) to the    *)
(* object after the call, the store after the call and the outcome.        *)
(***************************************************************************)
SinkKinds == {"SingleUseSink", "LastValueSink", "ArraySink",
              "AppendingDatasetSink", "ScalarDatasetSink"}

SingleUseSink_init == [kind |-> "SingleUseSink", _is_set |-> FALSE, _value |-> None]
LastValueSink_init == [kind |-> "LastValueSink", value |-> None]
ArraySink_init == [kind |-> "ArraySink", data |-> <<>>]
AppendingDatasetSink_build(key, broadcast) ==
    [kind |-> "AppendingDatasetSink", key |-> key, broadcast |-> broadcast,
     last_value |-> None]
ScalarDatasetSink_build(key, broadcast) ==
    [kind |-> "ScalarDatasetSink", key |-> key, broadcast |-> broadcast,
     has_pushed |-> FALSE]

\* What a sink method gives back: the sink, the store and the outcome.
Done(self, env, out) == [self |-> self, env |-> env, exc |-> out.exc, val |-> out.val]

SingleUseSink_push(self, env, value) ==
    IF self._is_set
    THEN Done(self, env, Raise("RuntimeError"))
    ELSE Done([self EXCEPT !._value = value, !._is_set = TRUE], env, Ok(None))

SingleUseSink_is_set(self) == self._is_set

SingleUseSink_get(self) ==
    IF ~self._is_set THEN Raise("ValueError") ELSE Ok(self._value)

\* Variant of get_last with the fault of returning the field unchecked.
SingleUseSink_get_last_unchecked(self) == Ok(self._value)

SingleUseSink_get_last(self) == SingleUseSink_get(self)

\* Variant of reset with the fault of leaving the flag set.
SingleUseSink_reset_keeps_flag(self) == [self EXCEPT !._value = None]

SingleUseSink_reset(self) == [self EXCEPT !._value = None, !._is_set = FALSE]

\* Variant of LastValueSink.push with the fault of keeping the first value.
LastValueSink_push_first(self, env, value) ==
    Done([self EXCEPT !.value = IF @ = None THEN value ELSE @], env, Ok(None))

LastValueSink_push(self, env, value) ==
    Done([self EXCEPT !.value = value], env, Ok(None))

LastValueSink_get_last(self) == Ok(self.value)

\* Variant of ArraySink.push with the fault of inserting at the front.
ArraySink_push_front(self, env, value) ==
    Done([self EXCEPT !.data = <<value>> \o @], env, Ok(None))

ArraySink_push(self, env, value) ==
    Done([self EXCEPT !.data = Append(@, value)], env, Ok(None))

ArraySink_get_all(self) == self.data

ArraySink_get_last(self) ==
    IF self.data # <<>> THEN Ok(self.data[Len(self.data)]) ELSE Ok(None)

ArraySink_clear(self) == [self EXCEPT !.data = <<>>]

\* Variant of AppendingDatasetSink.push with the fault of the missing assert.
AppendingDatasetSink_push_no_assert(self, env, value) ==
    Done([self EXCEPT !.last_value = value],
         IF self.last_value = None
         THEN set_dataset(env, self.key, <<value>>, self.broadcast)
         ELSE append_to_dataset(env, self.key, value),
         Ok(None))

\* Variant of AppendingDatasetSink.push with the fault of setting the dataset
\* anew on every push.
AppendingDatasetSink_push_reinit(self, env, value) ==
    IF value = None
    THEN Done(self, env, Raise("AssertionError"))
    ELSE Done([self EXCEPT !.last_value = value],
              set_dataset(env, self.key, <<value>>, self.broadcast), Ok(None))

AppendingDatasetSink_push(self, env, value) ==
    IF value = None
    THEN Done(self, env, Raise("AssertionError"))
    ELSE Done([self EXCEPT !.last_value = value],
              IF self.last_value = None
              THEN set_dataset(env, self.key, <<value>>, self.broadcast)
              ELSE append_to_dataset(env, self.key, value),
              Ok(None))

AppendingDatasetSink_get_last(self) == Ok(self.last_value)

AppendingDatasetSink_get_all(self, env) ==
    IF self.last_value = None THEN <<>> ELSE get_dataset(env, self.key)

\* Variant of ScalarDatasetSink.push with the fault of writing the dataset on
\* the first push only.
ScalarDatasetSink_push_once(self, env, value) ==
    Done([self EXCEPT !.has_pushed = TRUE],
         IF self.has_pushed THEN env
         ELSE set_dataset(env, self.key, value, self.broadcast), Ok(None))

ScalarDatasetSink_push(self, env, value) ==
    Done([self EXCEPT !.has_pushed = TRUE],
         set_dataset(env, self.key, value, self.broadcast), Ok(None))

ScalarDatasetSink_get_last(self, env) ==
    IF self.has_pushed THEN Ok(get_dataset(env, self.key)) ELSE Ok(None)

\* Variant of the store calls of AppendingDatasetSink.push with the fault of
\* appending on every push.
AppendingDatasetSink_push_calls_append(self, value) ==
    IF value = None THEN {} ELSE {"append_to_dataset"}

\* The store calls AppendingDatasetSink.push(value) makes.
AppendingDatasetSink_push_calls(self, value) ==
    IF value = None THEN {}
    ELSE IF self.last_value = None THEN {"set_dataset"}
    ELSE {"append_to_dataset"}

\* The store calls AppendingDatasetSink.get_last() makes: none.
AppendingDatasetSink_get_last_calls(self) == {}

\* The store calls AppendingDatasetSink.get_all() makes.
AppendingDatasetSink_get_all_calls(self) ==
    IF self.last_value = None THEN {} ELSE {"get_dataset"}

\* The store calls ScalarDatasetSink.push(value) makes.
ScalarDatasetSink_push_calls(self, value) == {"set_dataset"}

\* The store calls ScalarDatasetSink.get_last() makes.
ScalarDatasetSink_get_last_calls(self) ==
    IF self.has_pushed THEN {"get_dataset"} ELSE {}

\* sink.push(value), dispatched on the sink's class.
ResultSink_push(self, env, value) ==
    CASE self.kind = "SingleUseSink" -> SingleUseSink_push(self, env, value)
      [] self.kind = "LastValueSink" -> LastValueSink_push(self, env, value)
      [] self.kind = "ArraySink" -> ArraySink_push(self, env, value)
      [] self.kind = "AppendingDatasetSink" -> AppendingDatasetSink_push(self, env, value)
      [] self.kind = "ScalarDatasetSink" -> ScalarDatasetSink_push(self, env, value)

(***************************************************************************)
(* Channels.  A channel object is a record of its class (type), the sink   *)
(* it references (NoSink: None) and, for a numeric channel, the cached     *)
(* last raw value with its flag.                                           *)
(***************************************************************************)
NoSink == "None"

\* ResultChannel.__init__, and NumericChannel.__init__'s cache fields.
ResultChannel_init(type) ==
    [type |-> type, sink |-> NoSink, _value_pushed |-> FALSE,
     _last_value |-> IF type \in NumericTypes
                     THEN coerce_to_type(type, PyInt(0)).val ELSE None]

\* Variant of is_muted with the fault of the inverted test.
ResultChannel_is_muted_inverted(self) == self.sink = NoSink

ResultChannel_is_muted(self) == self.sink # NoSink

\* Variant of set_sink with the fault of keeping a sink that is already set.
ResultChannel_set_sink_once(self, s) ==
    IF self.sink = NoSink THEN [self EXCEPT !.sink = s] ELSE self

ResultChannel_set_sink(self, s) == [self EXCEPT !.sink = s]

\* Python's truth value of the sink reference: None is false, and an object
\* of a class with neither __bool__ nor __len__, as every sink class, is true.
Truthy(ref) == ref # NoSink

\* Variant of the body of ResultChannel.push with the fault of calling the
\* sink without the test for None.
ResultChannel_push_unchecked(self, sinks, env, raw_value) ==
    LET c == coerce_to_type(self.type, raw_value) IN
    IF c.exc # "none"
    THEN [sinks |-> sinks, env |-> env, exc |-> c.exc, fwd |-> <<>>]
    ELSE IF self.sink # NoSink
         THEN LET r == ResultSink_push(sinks[self.sink], env, c.val) IN
              [sinks |-> [sinks EXCEPT ![self.sink] = r.self], env |-> r.env,
               exc |-> r.exc, fwd |-> <<[to |-> self.sink, value |-> c.val]>>]
         ELSE [sinks |-> sinks, env |-> env, exc |-> "AttributeError", fwd |-> <<>>]

\* Variant of the body of ResultChannel.push with the fault of forwarding the
\* raw value.
ResultChannel_push_raw(self, sinks, env, raw_value) ==
    LET c == coerce_to_type(self.type, raw_value) IN
    IF c.exc # "none"
    THEN [sinks |-> sinks, env |-> env, exc |-> c.exc, fwd |-> <<>>]
    ELSE IF self.sink # NoSink
         THEN LET r == ResultSink_push(sinks[self.sink], env, raw_value) IN
              [sinks |-> [sinks EXCEPT ![self.sink] = r.self], env |-> r.env,
               exc |-> r.exc, fwd |-> <<[to |-> self.sink, value |-> raw_value]>>]
         ELSE [sinks |-> sinks, env |-> env, exc |-> "none", fwd |-> <<>>]

\* The body of ResultChannel.push: the sinks and the store after it, its
\* outcome, and the pushes it forwarded (the sink and the coerced value).
ResultChannel_push(self, sinks, env, raw_value) ==
    LET c == coerce_to_type(self.type, raw_value) IN
    IF c.exc # "none"
    THEN [sinks |-> sinks, env |-> env, exc |-> c.exc, fwd |-> <<>>]
    ELSE IF Truthy(self.sink)
         THEN LET r == ResultSink_push(sinks[self.sink], env, c.val) IN
              [sinks |-> [sinks EXCEPT ![self.sink] = r.self], env |-> r.env,
               exc |-> r.exc, fwd |-> <<[to |-> self.sink, value |-> c.val]>>]
         ELSE [sinks |-> sinks, env |-> env, exc |-> "none", fwd |-> <<>>]

\* Variant of NumericChannel.push with the fault of not setting the flag.
NumericChannel_push_no_flag(self, raw_value) ==
    [self EXCEPT !._last_value = raw_value]

\* Variant of NumericChannel.push with the fault of caching the first value
\* only.
NumericChannel_push_keep(self, raw_value) ==
    [self EXCEPT !._value_pushed = TRUE,
                 !._last_value = IF self._value_pushed THEN @ ELSE raw_value]

\* Variant of NumericChannel.push with the fault of caching a value only
\* when it coerces.
NumericChannel_push_checked(self, raw_value) ==
    IF coerce_to_type(self.type, raw_value).exc = "none"
    THEN [self EXCEPT !._value_pushed = TRUE, !._last_value = raw_value]
    ELSE self

\* The caller-side part of NumericChannel.push: the cache and the flag.
NumericChannel_push(self, raw_value) ==
    [self EXCEPT !._value_pushed = TRUE, !._last_value = raw_value]

NumericChannel_get_last(self) ==
    IF ~self._value_pushed THEN Raise("RuntimeError") ELSE Ok(self._last_value)

(***************************************************************************)
(* Construction of a channel and its description.  A dict is a function    *)
(* from its keys to its values.                                            *)
(***************************************************************************)
EmptyDict == [k \in {} |-> None]

\* The display_hints arguments tried: the default, {} and {"priority": 1}.
DisplayHints == {None, EmptyDict, [k \in {"priority"} |-> PyInt(1)]}

\* The min, max, unit and scale arguments tried; None is the default of
\* min, max and scale, "" that of unit.
MinArgs == {None, PyInt(0)}
MaxArgs == {None, PyInt(10)}
UnitArgs == {PyStr(""), PyStr("kHz"), PyStr("furlong"), None}
ScaleArgs == {None, PyFloat(20)}

\* The names defined in artiq.language.units with their scales (kHz = 1000.0).
units == [u \in {"kHz"} |-> PyFloat(10000)]

\* _get_type_string() of each channel class.
get_type_string(type) ==
    CASE type = "FloatChannel" -> "float"
      [] type = "IntChannel" -> "int"
      [] type = "OpaqueChannel" -> "opaque"
      [] type = "SubscanChannel" -> "subscan"

\* ResultChannel.__init__ with all its attributes.
ResultChannel_construct(type, path, description, display_hints) ==
    [path |-> path, description |-> description,
     display_hints |-> IF display_hints = None THEN EmptyDict ELSE display_hints,
     save_by_default |-> TRUE,
     type |-> type, sink |-> ResultChannel_init(type).sink,
     _value_pushed |-> ResultChannel_init(type)._value_pushed,
     _last_value |-> ResultChannel_init(type)._last_value]

\* getattr(artiq.language.units, unit), the AttributeError turned into
\* KeyError.
units_getattr(unit) ==
    IF unit.t # "str" THEN Raise("TypeError")
    ELSE IF unit.s \in DOMAIN units THEN Ok(units[unit.s])
    ELSE Raise("KeyError")

\* The attributes NumericChannel.__init__ adds to those of base.
NumericAttributes(base, min, max, unit, scale) ==
    [path |-> base.path, description |-> base.description,
     display_hints |-> base.display_hints,
     save_by_default |-> base.save_by_default,
     type |-> base.type, sink |-> base.sink,
     min |-> min, max |-> max, scale |-> scale, unit |-> unit,
     _value_pushed |-> base._value_pushed, _last_value |-> base._last_value]

\* Variant of NumericChannel.__init__ with the fault of taking scale 1.0 for
\* an unknown unit.
NumericChannel_construct_default(type, path, description, display_hints, min, max, unit, scale) ==
    LET found == units_getattr(unit)
        resolved == IF scale # None THEN scale
                    ELSE IF found.exc = "none" THEN found.val ELSE PyFloat(10)
    IN  Ok(NumericAttributes(
               ResultChannel_construct(type, path, description, display_hints),
               min, max, unit, resolved))

\* NumericChannel.__init__: the channel built, or the exception raised.
NumericChannel_construct(type, path, description, display_hints, min, max, unit, scale) ==
    LET resolved == IF scale = None
                    THEN IF unit = PyStr("") THEN Ok(PyFloat(10))
                         ELSE units_getattr(unit)
                    ELSE Ok(scale)
    IN  IF resolved.exc # "none" THEN resolved
        ELSE Ok(NumericAttributes(
                    ResultChannel_construct(type, path, description, display_hints),
                    min, max, unit, resolved.val))

\* ResultChannel.describe().
ResultChannel_describe(self) ==
    LET keys == {"path", "description", "type"}
                \cup (IF DOMAIN self.display_hints # {}
                      THEN {"display_hints"} ELSE {})
    IN  [k \in keys |->
            CASE k = "path" -> self.path
              [] k = "description" -> self.description
              [] k = "type" -> PyStr(get_type_string(self.type))
              [] k = "display_hints" -> self.display_hints]

\* NumericChannel.describe().
NumericChannel_describe(self) ==
    LET result == ResultChannel_describe(self)
        keys == DOMAIN result \cup {"scale"}
                \cup (IF self.min # None THEN {"min"} ELSE {})
                \cup (IF self.max # None THEN {"max"} ELSE {})
                \cup (IF self.unit # None THEN {"unit"} ELSE {})
    IN  [k \in keys |->
            CASE k = "scale" -> self.scale
              [] k = "min" -> self.min
              [] k = "max" -> self.max
              [] k = "unit" -> self.unit
              [] OTHER -> result[k]]

\* channel.describe(), dispatched on the channel's class.
describe(self) ==
    IF self.type \in NumericTypes THEN NumericChannel_describe(self)
    ELSE ResultChannel_describe(self)


(***************************************************************************)
(* The state.                                                              *)
(*   chan      the channel objects                                         *)
(*   sink      the sink objects                                            *)
(*   datasets  the dataset store                                           *)
(*   inflight  the asynchronous push RPCs dispatched and not yet run       *)
(*   exc       the exception raised by the last call body that ran         *)
(*   recv      per sink, the values its push was called with since it was  *)
(*             built or last cleared/reset (history)                       *)
(*   issued    per channel, the raw values of the pushes issued (history)  *)
(*   npush     the number of push calls made                               *)
(***************************************************************************)
VARIABLES chan, sink, datasets, inflight, exc, recv, issued, npush

vars == <<chan, sink, datasets, inflight, exc, recv, issued, npush>>

ChanIds == DOMAIN chan
SinkIds == DOMAIN sink

\* The sinks of a run: one of each class, the dataset sinks built on their
\* own keys with broadcast flags b1 and b2.
Sinks(b1, b2) ==
    [s \in {"single", "last", "array", "appending", "scalar"} |->
        CASE s = "single" -> SingleUseSink_init
          [] s = "last" -> LastValueSink_init
          [] s = "array" -> ArraySink_init
          [] s = "appending" -> AppendingDatasetSink_build("results", b1)
          [] s = "scalar" -> ScalarDatasetSink_build("point", b2)]

\* The state after construction of the channels chans and the sinks sinks.
InitWith(chans, sinks) ==
    /\ chan = chans
    /\ sink = sinks
    /\ datasets = [k \in {"results", "point"} |-> AbsentDataset]
    /\ inflight = <<>>
    /\ exc = "none"
    /\ recv = [s \in DOMAIN sinks |-> <<>>]
    /\ issued = [c \in DOMAIN chans |-> <<>>]
    /\ npush = 0

\* One channel of any class, a sink that can refuse a push and a sink that
\* keeps every value.
Init ==
    \E type \in ChannelTypes :
        InitWith([c \in {"ch"} |-> ResultChannel_init(type)],
                 [s \in {"single", "array"} |-> Sinks(TRUE, TRUE)[s]])

\* The sinks alone, one of each class.
SinkInit ==
    \E b1, b2 \in BOOLEAN :
        InitWith([c \in {} |-> ResultChannel_init("OpaqueChannel")], Sinks(b1, b2))

\* One channel of any class with a sink set on it before the kernel starts.
KernelInit ==
    \E type \in ChannelTypes, s \in {"single", "array", "appending"} :
        InitWith([c \in {"ch"} |-> ResultChannel_set_sink(ResultChannel_init(type), s)],
                 [x \in {"single", "array", "appending"} |-> Sinks(TRUE, TRUE)[x]])

\* The history of the sinks after a call body forwarded fwd.
Received(log, fwd) ==
    IF fwd = <<>> THEN log
    ELSE [log EXCEPT ![fwd[1].to] = Append(@, fwd[1].value)]

\* sink.push(value), called on the sink directly.
SinkPush(s, value) ==
    /\ npush < MaxPush
    /\ LET r == ResultSink_push(sink[s], datasets, value) IN
          /\ sink' = [sink EXCEPT ![s] = r.self]
          /\ datasets' = r.env
          /\ exc' = r.exc
    /\ recv' = [recv EXCEPT ![s] = Append(@, value)]
    /\ npush' = npush + 1
    /\ UNCHANGED <<chan, inflight, issued>>

\* SingleUseSink.reset().
SinkReset(s) ==
    /\ sink[s].kind = "SingleUseSink"
    /\ sink' = [sink EXCEPT ![s] = SingleUseSink_reset(@)]
    /\ recv' = [recv EXCEPT ![s] = <<>>]
    /\ exc' = "none"
    /\ UNCHANGED <<chan, datasets, inflight, issued, npush>>

\* ArraySink.clear().
SinkClear(s) ==
    /\ sink[s].kind = "ArraySink"
    /\ sink' = [sink EXCEPT ![s] = ArraySink_clear(@)]
    /\ recv' = [recv EXCEPT ![s] = <<>>]
    /\ exc' = "none"
    /\ UNCHANGED <<chan, datasets, inflight, issued, npush>>

\* channel.set_sink(s).
SetSink(c, s) ==
    /\ chan' = [chan EXCEPT ![c] = ResultChannel_set_sink(@, s)]
    /\ exc' = "none"
    /\ UNCHANGED <<sink, datasets, inflight, recv, issued, npush>>

\* The channel after the caller-side part of push.
Cached(c, raw_value) ==
    IF chan[c].type \in NumericTypes
    THEN [chan EXCEPT ![c] = NumericChannel_push(@, raw_value)]
    ELSE chan

\* channel.push(raw_value) called in host context, where the RPC decorator
\* does nothing: the call runs the body at once.
Push(c, raw_value) ==
    /\ npush < MaxPush
    /\ chan' = Cached(c, raw_value)
    /\ LET r == ResultChannel_push(chan[c], sink, datasets, raw_value) IN
          /\ sink' = r.sinks
          /\ datasets' = r.env
          /\ exc' = r.exc
          /\ recv' = Received(recv, r.fwd)
    /\ issued' = [issued EXCEPT ![c] = Append(@, raw_value)]
    /\ npush' = npush + 1
    /\ UNCHANGED inflight

\* channel.push(raw_value) called in kernel context: the cache is written
\* and the body is dispatched as an asynchronous RPC.
KernelPush(c, raw_value) ==
    /\ npush < MaxPush
    /\ chan' = Cached(c, raw_value)
    /\ inflight' = Append(inflight, [ch |-> c, raw |-> raw_value])
    /\ issued' = [issued EXCEPT ![c] = Append(@, raw_value)]
    /\ npush' = npush + 1
    /\ exc' = "none"
    /\ UNCHANGED <<sink, datasets, recv>>

\* The host runs the body of the oldest push in flight.
Deliver ==
    /\ inflight # <<>>
    /\ LET m == Head(inflight)
           r == ResultChannel_push(chan[m.ch], sink, datasets, m.raw) IN
          /\ sink' = r.sinks
          /\ datasets' = r.env
          /\ exc' = r.exc
          /\ recv' = Received(recv, r.fwd)
    /\ inflight' = Tail(inflight)
    /\ UNCHANGED <<chan, issued, npush>>

\* Host code working on channels: sinks are written through channels only.
Next ==
    \/ \E s \in SinkIds : SinkReset(s)
    \/ \E s \in SinkIds : SinkClear(s)
    \/ \E c \in ChanIds, s \in SinkIds \cup {NoSink} : SetSink(c, s)
    \/ \E c \in ChanIds, v \in Val : Push(c, v)
    \/ \E c \in ChanIds, v \in Val : KernelPush(c, v)
    \/ Deliver

Spec == Init /\ [][Next]_vars

\* Code working on the sinks directly.
SinkNext ==
    \/ \E s \in SinkIds, v \in Val : SinkPush(s, v)
    \/ \E s \in SinkIds : SinkReset(s)
    \/ \E s \in SinkIds : SinkClear(s)

SinkSpec == SinkInit /\ [][SinkNext]_vars

\* A kernel pushing to a channel while the host serves its RPCs: an RPC in
\* flight is eventually run.
KernelNext ==
    \/ \E c \in ChanIds, v \in Val : KernelPush(c, v)
    \/ Deliver

KernelSpec == KernelInit /\ [][KernelNext]_vars /\ WF_vars(Deliver)

\* sink.get_last(), dispatched on the sink's class.
ResultSink_get_last(self, env) ==
    CASE self.kind = "SingleUseSink" -> SingleUseSink_get_last(self)
      [] self.kind = "LastValueSink" -> LastValueSink_get_last(self)
      [] self.kind = "ArraySink" -> ArraySink_get_last(self)
      [] self.kind = "AppendingDatasetSink" -> AppendingDatasetSink_get_last(self)
      [] self.kind = "ScalarDatasetSink" -> ScalarDatasetSink_get_last(self, env)

\* SingleUseSink.get(): a read, which assigns nothing.
SinkGet(s) ==
    /\ sink[s].kind = "SingleUseSink"
    /\ exc' = SingleUseSink_get(sink[s]).exc
    /\ UNCHANGED <<chan, sink, datasets, inflight, recv, issued, npush>>

\* sink.get_last(): a read, which assigns nothing.
SinkGetLast(s) ==
    /\ exc' = ResultSink_get_last(sink[s], datasets).exc
    /\ UNCHANGED <<chan, sink, datasets, inflight, recv, issued, npush>>

\* ArraySink.get_all() and AppendingDatasetSink.get_all(): a read, which
\* assigns nothing.
SinkGetAll(s) ==
    /\ sink[s].kind \in {"ArraySink", "AppendingDatasetSink"}
    /\ exc' = "none"
    /\ UNCHANGED <<chan, sink, datasets, inflight, recv, issued, npush>>

\* Code working on the sinks directly, reads included.
ReadNext ==
    \/ \E s \in SinkIds, v \in Val : SinkPush(s, v)
    \/ \E s \in SinkIds : SinkReset(s)
    \/ \E s \in SinkIds : SinkClear(s)
    \/ \E s \in SinkIds : SinkGet(s)
    \/ \E s \in SinkIds : SinkGetLast(s)
    \/ \E s \in SinkIds : SinkGetAll(s)

ReadSpec == SinkInit /\ [][ReadNext]_vars

\* No channel built yet, and a sink to set on the one that will be.
DescribeInit ==
    InitWith([c \in {} |-> ResultChannel_init("OpaqueChannel")],
             [s \in {"array"} |-> Sinks(TRUE, TRUE)[s]])

\* The state after a constructor call with outcome r.
Constructed(r) ==
    /\ exc' = r.exc
    /\ chan' = IF r.exc = "none" THEN [c \in {"ch"} |-> r.val] ELSE chan
    /\ issued' = IF r.exc = "none" THEN [c \in {"ch"} |-> <<>>] ELSE issued
    /\ UNCHANGED <<sink, datasets, inflight, recv, npush>>

\* FloatChannel(...) or IntChannel(...).
ConstructNumeric(type, display_hints, min, max, unit, scale) ==
    /\ ChanIds = {}
    /\ Constructed(NumericChannel_construct(type, PyStr("readout/p"), PyStr(""),
                                            display_hints, min, max, unit, scale))

\* OpaqueChannel(...) or SubscanChannel(...).
ConstructPlain(type, display_hints) ==
    /\ ChanIds = {}
    /\ Constructed(Ok(ResultChannel_construct(type, PyStr("readout/p"), PyStr(""),
                                              display_hints)))

\* channel.describe(): a read, which assigns nothing.
Describe(c) ==
    /\ DOMAIN describe(chan[c]) # {}
    /\ exc' = "none"
    /\ UNCHANGED <<chan, sink, datasets, inflight, recv, issued, npush>>

\* Code building a channel, describing it and pushing to it.
DescribeNext ==
    \/ \E type \in NumericTypes, h \in DisplayHints, min \in MinArgs,
          max \in MaxArgs, unit \in UnitArgs, scale \in ScaleArgs :
            ConstructNumeric(type, h, min, max, unit, scale)
    \/ \E type \in ChannelTypes \ NumericTypes, h \in DisplayHints :
            ConstructPlain(type, h)
    \/ \E c \in ChanIds : Describe(c)
    \/ \E c \in ChanIds, s \in SinkIds \cup {NoSink} : SetSink(c, s)
    \/ \E c \in ChanIds, v \in {PyFloat(25), PyStr("abc")} : Push(c, v)

DescribeSpec == DescribeInit /\ [][DescribeNext]_vars

\* A scan: a numeric and a non-numeric channel, each with an ArraySink of
\* its own set on it before the kernel starts.
ScanInit ==
    \E t1 \in NumericTypes, t2 \in ChannelTypes \ NumericTypes :
        InitWith([c \in {"c1", "c2"} |->
                     ResultChannel_set_sink(
                         ResultChannel_init(IF c = "c1" THEN t1 ELSE t2),
                         IF c = "c1" THEN "a1" ELSE "a2")],
                 [s \in {"a1", "a2"} |-> ArraySink_init])

\* The kernel pushes the value of the current data point to channel c: every
\* point pushes once to c1, then once to c2.
PointPush(c, raw_value) ==
    /\ Len(issued[c]) < MaxPoints
    /\ IF c = "c1" THEN Len(issued["c1"]) = Len(issued["c2"])
       ELSE Len(issued["c2"]) < Len(issued["c1"])
    /\ chan' = Cached(c, raw_value)
    /\ inflight' = Append(inflight, [ch |-> c, raw |-> raw_value])
    /\ issued' = [issued EXCEPT ![c] = Append(@, raw_value)]
    /\ npush' = npush + 1
    /\ exc' = "none"
    /\ UNCHANGED <<sink, datasets, recv>>

\* A kernel scanning while the host serves its RPCs.
ScanNext ==
    \/ \E c \in ChanIds, v \in Val : PointPush(c, v)
    \/ Deliver

ScanSpec == ScanInit /\ [][ScanNext]_vars

(***************************************************************************)
(* Properties of the sinks.                                                *)
(***************************************************************************)
Last(seq) == seq[Len(seq)]

NotNone(v) == v # None

\* C1: for every sink class, in every state reached by the sink's own
\* operations, push raises no exception.  (Stated as the claim stands; the
\* code of SingleUseSink.push and AppendingDatasetSink.push violates it.)
C1_PushNeverFails == exc = "none"

\* C2: SingleUseSink is a one-shot latch.  It is set exactly when a value was
\* pushed since construction or the last reset, and get() is then the first
\* of those values; a push on an unset sink returns, sets it and makes
\* get() the pushed value; a push on a set sink raises RuntimeError and
\* leaves the sink as it was; reset() unsets it.
C2_SingleUseLatch ==
    /\ [](/\ SingleUseSink_is_set(sink["single"]) <=> recv["single"] # <<>>
          /\ SingleUseSink_is_set(sink["single"])
                => SingleUseSink_get(sink["single"]) = Ok(recv["single"][1]))
    /\ [][/\ \A v \in Val : SinkPush("single", v) =>
                IF ~SingleUseSink_is_set(sink["single"])
                THEN /\ exc' = "none"
                     /\ SingleUseSink_is_set(sink'["single"])
                     /\ SingleUseSink_get(sink'["single"]) = Ok(v)
                ELSE /\ exc' = "RuntimeError"
                     /\ sink'["single"] = sink["single"]
          /\ SinkReset("single") => ~SingleUseSink_is_set(sink'["single"])]_vars

\* C2's case: a second push was refused on a set sink.
C2_Witness ==
    /\ "single" \in SinkIds /\ ChanIds = {}
    /\ SingleUseSink_is_set(sink["single"])
    /\ Len(recv["single"]) >= 2
    /\ exc = "RuntimeError"

\* C3: once an AppendingDatasetSink has accepted pushes of v1..vn (n >= 1),
\* the dataset under its key is the list [v1, ..., vn] in push order with the
\* sink's broadcast flag, get_all() is that list and get_last() is vn.
C3_AppendingInOrder ==
    LET a == sink["appending"]
        acc == SelectSeq(recv["appending"], NotNone) IN
    acc # <<>> =>
        /\ datasets[a.key] = [present |-> TRUE, value |-> acc,
                              broadcast |-> a.broadcast]
        /\ AppendingDatasetSink_get_all(a, datasets) = acc
        /\ AppendingDatasetSink_get_last(a) = Ok(Last(acc))

\* C3's case: three values were pushed, after the first two to be appended.
C3_Witness ==
    /\ "appending" \in SinkIds /\ ChanIds = {}
    /\ Len(SelectSeq(recv["appending"], NotNone)) >= 3
    /\ recv["appending"][1] # recv["appending"][2]

\* C4: ArraySink.get_all() is the sequence of the values pushed since the last
\* clear() (or construction) in push order, get_last() is its last element,
\* or None when it is empty, and get_all() is empty right after clear().
C4_ArrayHistory ==
    /\ [](/\ ArraySink_get_all(sink["array"]) = recv["array"]
          /\ ArraySink_get_last(sink["array"]) =
                IF recv["array"] = <<>> THEN Ok(None) ELSE Ok(Last(recv["array"])))
    /\ [][SinkClear("array") => ArraySink_get_all(sink'["array"]) = <<>>]_vars

\* C4's case: two different values are held in push order.
C4_Witness ==
    /\ "array" \in SinkIds /\ ChanIds = {}
    /\ Len(ArraySink_get_all(sink["array"])) >= 2
    /\ ArraySink_get_all(sink["array"])[1] # ArraySink_get_all(sink["array"])[2]

\* C8: before any push ScalarDatasetSink.get_last() is None; after pushes the
\* dataset under the sink's key holds the last pushed value alone, set with
\* the sink's broadcast flag, and get_last() returns it.
C8_ScalarOverwrites ==
    LET s == sink["scalar"] IN
    IF recv["scalar"] = <<>>
    THEN ScalarDatasetSink_get_last(s, datasets) = Ok(None)
    ELSE /\ datasets[s.key] = [present |-> TRUE, value |-> Last(recv["scalar"]),
                               broadcast |-> s.broadcast]
         /\ ScalarDatasetSink_get_last(s, datasets) = Ok(Last(recv["scalar"]))

\* C8's case: a second, different value was pushed over the first.
C8_Witness ==
    /\ "scalar" \in SinkIds /\ ChanIds = {}
    /\ Len(recv["scalar"]) >= 2
    /\ recv["scalar"][1] # Last(recv["scalar"])

(***************************************************************************)
(* Properties of the channels.                                             *)
(***************************************************************************)
IsNumeric(c) == chan[c].type \in NumericTypes

\* The values of the model from which Python makes no number.
NonNumeric == {PyStr("abc"), None}

\* C5 as it stands: a push on a channel with no sink raises nothing and
\* changes nothing, the channel's cache and so get_last() included.
C5_NoSinkPushNoEffect ==
    [][\A c \in ChanIds, v \in Val :
        (Push(c, v) /\ chan[c].sink = NoSink) =>
            /\ exc' = "none"
            /\ UNCHANGED <<sink, datasets, recv, inflight>>
            /\ NumericChannel_get_last(chan'[c]) = NumericChannel_get_last(chan[c])
            /\ ~ResultChannel_is_muted(chan'[c])]_vars

\* C5 amended: a push body run on a channel with no sink forwards the value
\* nowhere and keeps it nowhere (no sink, no dataset, no RPC queue changes),
\* the channel stays unmuted, and it raises exactly when the coercion of the
\* value does; on a numeric channel the push does write the cache, so that
\* get_last() is the raw value afterwards, and on the others the channel is
\* left as it was.
C5_NoSinkPushDiscards ==
    [][/\ \A c \in ChanIds, v \in Val :
            (Push(c, v) /\ chan[c].sink = NoSink) =>
                /\ UNCHANGED <<sink, datasets, recv, inflight>>
                /\ ~ResultChannel_is_muted(chan'[c])
                /\ exc' = coerce_to_type(chan[c].type, v).exc
                /\ IF IsNumeric(c)
                   THEN NumericChannel_get_last(chan'[c]) = Ok(v)
                   ELSE chan' = chan
       /\ (Deliver /\ chan[Head(inflight).ch].sink = NoSink) =>
                /\ UNCHANGED <<chan, sink, datasets, recv>>
                /\ exc' = coerce_to_type(chan[Head(inflight).ch].type,
                                         Head(inflight).raw).exc]_vars

\* C5's case: a value was pushed on a channel that never had a sink, and
\* nothing was forwarded.
C5_Witness ==
    \E c \in ChanIds :
        /\ chan[c].sink = NoSink
        /\ issued[c] # <<>>
        /\ inflight = <<>>
        /\ exc = "none"
        /\ \A s \in SinkIds : recv[s] = <<>>

\* C6: get_last() of a numeric channel raises RuntimeError exactly when no
\* push was ever called on the channel, and is otherwise the raw argument of
\* the latest push call, delivered or not, coerced or not, sink or not.
C6_GetLastIsLastRaw ==
    \A c \in ChanIds :
        IsNumeric(c) =>
            NumericChannel_get_last(chan[c]) =
                IF issued[c] = <<>> THEN Raise("RuntimeError")
                ELSE Ok(Last(issued[c]))

\* C6's case: the latest push is still in flight and get_last() is its raw
\* value already.
C6_Witness ==
    \E c \in ChanIds :
        /\ IsNumeric(c)
        /\ Len(issued[c]) >= 2
        /\ inflight # <<>>
        /\ Last(inflight).ch = c
        /\ NumericChannel_get_last(chan[c]) = Ok(Last(inflight).raw)
        /\ issued[c][1] # Last(issued[c])

\* The coerced values of those of raws that the channel class coerces.
CoercedOf(type, raws) ==
    LET Coerces(v) == coerce_to_type(type, v).exc = "none"
        ok == SelectSeq(raws, Coerces) IN
    [i \in 1..Len(ok) |-> coerce_to_type(type, ok[i]).val]

\* The raw values of the pushes of channel c whose body has run.
Delivered(c) == SubSeq(issued[c], 1, Len(issued[c]) - Len(inflight))

\* The push at the head of the queue is one whose value its channel coerces.
HeadCoerces ==
    coerce_to_type(chan[Head(inflight).ch].type, Head(inflight).raw).exc = "none"

\* C7 as stated: with one kernel pushing to a channel whose sink stays set,
\* a push can be issued whatever is in flight (up to the bound on the pushes
\* of a run), the pushes in flight are the latest issued in issue order, the
\* sink's push was called once for every delivered push, with its coerced
\* value and in issue order, and every push issued eventually reaches the
\* sink.
C7_AllIssuedReceived ==
    /\ [](\A c \in ChanIds :
            /\ npush < MaxPush => \A v \in Val : ENABLED KernelPush(c, v)
            /\ chan[c].sink \in SinkIds
            /\ [i \in 1..Len(inflight) |-> inflight[i]] =
                  [i \in 1..Len(inflight) |->
                      [ch |-> c,
                       raw |-> issued[c][Len(issued[c]) - Len(inflight) + i]]]
            /\ Len(recv[chan[c].sink]) = Len(Delivered(c))
            /\ \A i \in 1..Len(Delivered(c)) :
                  LET r == coerce_to_type(chan[c].type, Delivered(c)[i]) IN
                  r.exc = "none" /\ r.val = recv[chan[c].sink][i]
            /\ \A s \in SinkIds \ {chan[c].sink} : recv[s] = <<>>)
    /\ \A k \in 1..MaxPush :
          (\E c \in ChanIds : Len(issued[c]) >= k)
              ~> (\E c \in ChanIds : Len(recv[chan[c].sink]) >= k)

\* C7: with one kernel pushing to a channel whose sink stays set, a push
\* can be issued whatever is in flight (up to the bound on the pushes of a
\* run), the pushes in flight are the latest issued in issue order, and
\* every push issued is eventually delivered; the delivery of a push whose
\* value the channel coerces calls the sink's push once, with the coerced
\* value, and the delivery of a push whose coercion raises calls no sink;
\* so the sink's push was called with the coerced values of exactly those
\* delivered pushes whose value coerces, in issue order.
C7_InOrderDelivery ==
    /\ [](\A c \in ChanIds :
            /\ npush < MaxPush => \A v \in Val : ENABLED KernelPush(c, v)
            /\ chan[c].sink \in SinkIds
            /\ [i \in 1..Len(inflight) |-> inflight[i]] =
                  [i \in 1..Len(inflight) |->
                      [ch |-> c,
                       raw |-> issued[c][Len(issued[c]) - Len(inflight) + i]]]
            /\ recv[chan[c].sink] = CoercedOf(chan[c].type, Delivered(c))
            /\ \A s \in SinkIds \ {chan[c].sink} : recv[s] = <<>>)
    /\ [][(inflight # <<>> /\ inflight' = Tail(inflight)) =>
             LET m == Head(inflight)
                 s == chan[m.ch].sink
                 r == coerce_to_type(chan[m.ch].type, m.raw) IN
             /\ \A x \in SinkIds \ {s} : recv'[x] = recv[x]
             /\ IF HeadCoerces
                THEN recv'[s] = Append(recv[s], r.val)
                ELSE recv'[s] = recv[s] /\ exc' = r.exc /\ exc' # "none"]_vars
    /\ \A k \in 1..MaxPush :
          (\E c \in ChanIds : Len(issued[c]) >= k)
              ~> (\E c \in ChanIds : Len(Delivered(c)) >= k)

\* C7's case: three pushes whose values coerce have all been delivered, and
\* the sink's push was called three times, with their coerced values in
\* issue order.
C7_Witness ==
    \E c \in ChanIds :
        /\ chan[c].type = "IntChannel"
        /\ Len(issued[c]) = 3
        /\ inflight = <<>>
        /\ Len(recv[chan[c].sink]) = 3
        /\ recv[chan[c].sink] = CoercedOf(chan[c].type, issued[c])
        /\ recv[chan[c].sink][1] # recv[chan[c].sink][2]

\* C7's other case: a push whose coercion raised was delivered between two
\* that coerce, and the sink's push was called for those two only.
C7_WitnessRejected ==
    \E c \in ChanIds :
        /\ chan[c].type = "FloatChannel"
        /\ Len(issued[c]) = 3
        /\ inflight = <<>>
        /\ issued[c][2] = PyStr("abc")
        /\ Len(recv[chan[c].sink]) = 2

\* C9: a new channel is not muted; is_muted() is true exactly when the
\* channel references a sink; no push changes it; and a push body whose
\* coercion succeeds calls a sink's push exactly when the channel is muted,
\* while on an unmuted channel nothing reaches any sink.
C9_MutedIffSink ==
    /\ \A c \in ChanIds : ~ResultChannel_is_muted(chan[c])
    /\ [](\A c \in ChanIds : ResultChannel_is_muted(chan[c]) <=> chan[c].sink \in SinkIds)
    /\ [][/\ \A c \in ChanIds, v \in Val :
               /\ (Push(c, v) \/ KernelPush(c, v)) =>
                     ResultChannel_is_muted(chan'[c]) = ResultChannel_is_muted(chan[c])
               /\ Push(c, v) =>
                     /\ coerce_to_type(chan[c].type, v).exc = "none" =>
                           (recv' # recv <=> ResultChannel_is_muted(chan[c]))
                     /\ ~ResultChannel_is_muted(chan[c]) => recv' = recv /\ sink' = sink
          /\ Deliver =>
               LET m == Head(inflight) IN
               /\ ResultChannel_is_muted(chan'[m.ch]) = ResultChannel_is_muted(chan[m.ch])
               /\ coerce_to_type(chan[m.ch].type, m.raw).exc = "none" =>
                     (recv' # recv <=> ResultChannel_is_muted(chan[m.ch]))
               /\ ~ResultChannel_is_muted(chan[m.ch]) => recv' = recv /\ sink' = sink]_vars

\* C9's case: a sink was set, a push went to it, and the sink was taken off
\* again after a later push.
C9_Witness ==
    \E c \in ChanIds :
        /\ ~ResultChannel_is_muted(chan[c])
        /\ Len(issued[c]) >= 2
        /\ \E s \in SinkIds : Len(recv[s]) = 1
        /\ inflight = <<>>

\* C10: the body of a push of a non-numeric value on a FloatChannel or an
\* IntChannel raises the coercion error (ValueError or TypeError) when it
\* runs, and no sink is called: sinks, datasets and what the sinks received
\* are as before.
C10_CoercionError ==
    [][/\ \A c \in ChanIds, v \in NonNumeric :
            (Push(c, v) /\ IsNumeric(c)) =>
                /\ exc' \in {"ValueError", "TypeError"}
                /\ UNCHANGED <<sink, datasets, recv>>
       /\ (Deliver /\ IsNumeric(Head(inflight).ch)
                   /\ Head(inflight).raw \in NonNumeric) =>
                /\ exc' \in {"ValueError", "TypeError"}
                /\ UNCHANGED <<sink, datasets, recv>>]_vars

\* C10's case: a sink is set on a numeric channel, the push of "abc" raised
\* ValueError, and the sink, which got an earlier value, got nothing more.
C10_Witness ==
    \E c \in ChanIds :
        /\ IsNumeric(c)
        /\ chan[c].sink \in SinkIds
        /\ exc = "ValueError"
        /\ Len(issued[c]) = 2
        /\ Last(issued[c]) = PyStr("abc")
        /\ inflight = <<>>
        /\ Len(recv[chan[c].sink]) = 1

(***************************************************************************)
(* Further properties of the sinks.                                        *)
(***************************************************************************)
\* C11: SingleUseSink.get() and get_last() raise (ValueError) exactly when
\* the sink is unset, that is when nothing was pushed since construction or
\* the last reset; on a set sink both return the value of the one accepted
\* push; get_last() always agrees with get(); and a call of either changes
\* neither the sink nor anything else but the outcome of the call.
C11_SingleUseReads ==
    /\ [](LET s == sink["single"] IN
          /\ SingleUseSink_get(s).exc = "ValueError" <=> recv["single"] = <<>>
          /\ SingleUseSink_get(s).exc \in {"none", "ValueError"}
          /\ recv["single"] # <<>> => SingleUseSink_get(s) = Ok(recv["single"][1])
          /\ SingleUseSink_get_last(s) = SingleUseSink_get(s))
    /\ [][(SinkGet("single") \/ SinkGetLast("single")) =>
             /\ UNCHANGED <<sink, datasets, recv>>
             /\ exc' = IF SingleUseSink_is_set(sink["single"])
                       THEN "none" ELSE "ValueError"]_vars

\* C11's case: a read raised on a sink that was set and then reset.
C11_Witness ==
    /\ "single" \in SinkIds /\ ChanIds = {}
    /\ npush >= 1
    /\ ~SingleUseSink_is_set(sink["single"])
    /\ exc = "ValueError"

\* C12: LastValueSink.get_last() is None before any push and the latest
\* pushed value after pushes; the sink holds nothing but that value.
C12_LastValueOnly ==
    /\ LastValueSink_get_last(sink["last"]) =
          IF recv["last"] = <<>> THEN Ok(None) ELSE Ok(Last(recv["last"]))
    /\ sink["last"] =
          [kind |-> "LastValueSink",
           value |-> IF recv["last"] = <<>> THEN None ELSE Last(recv["last"])]

\* C12's case: three pushes, the last value differing from the earlier ones.
C12_Witness ==
    /\ "last" \in SinkIds /\ ChanIds = {}
    /\ Len(recv["last"]) >= 3
    /\ recv["last"][1] # Last(recv["last"])
    /\ recv["last"][2] # Last(recv["last"])

\* C13: AppendingDatasetSink.push(None) raises AssertionError and leaves the
\* dataset store and the sink (its last_value) as they were, so that a sink
\* never pushed to has last_value None and no dataset entry.
C13_AppendingRejectsNone ==
    /\ [](SelectSeq(recv["appending"], NotNone) = <<>> =>
             /\ sink["appending"].last_value = None
             /\ ~datasets[sink["appending"].key].present)
    /\ [][recv'["appending"] = Append(recv["appending"], None) =>
             /\ exc' = "AssertionError"
             /\ UNCHANGED <<sink, datasets>>]_vars

\* C13's case: None was refused after a value had been accepted.
C13_Witness ==
    /\ "appending" \in SinkIds /\ ChanIds = {}
    /\ Len(recv["appending"]) >= 2
    /\ recv["appending"][1] # None
    /\ Last(recv["appending"]) = None
    /\ exc = "AssertionError"

(***************************************************************************)
(* Properties of construction and description.                             *)
(***************************************************************************)
\* The keys of d.
Keys(d) == DOMAIN d

\* C14: describe() returns a mapping with the keys path, description and
\* type, with display_hints exactly when the hints are non-empty, for a
\* numeric channel also with scale always and with min, max and unit each
\* exactly when given, a channel built without a unit having no unit key;
\* and a call of describe() changes no channel and no sink.
C14_DescribeKeys ==
    /\ [](\A c \in ChanIds :
            LET self == chan[c] IN
            Keys(describe(self)) =
                {"path", "description", "type"}
                \cup (IF self.display_hints # EmptyDict THEN {"display_hints"} ELSE {})
                \cup (IF IsNumeric(c)
                      THEN {"scale"}
                           \cup (IF self.min # None THEN {"min"} ELSE {})
                           \cup (IF self.max # None THEN {"max"} ELSE {})
                           \cup (IF self.unit \notin {None, PyStr("")}
                                 THEN {"unit"} ELSE {})
                      ELSE {}))
    /\ [][\A c \in ChanIds : Describe(c) =>
             UNCHANGED <<chan, sink, datasets, recv>>]_vars

\* C15: NumericChannel's constructor keeps a scale that is given; with no
\* scale given it takes 1.0 for the empty unit and the unit table's entry
\* for a unit of the table; for a non-empty unit that is not in the table
\* it raises KeyError and no channel comes to exist.
C15_ScaleResolution ==
    [][\A type \in NumericTypes, h \in DisplayHints, min \in MinArgs,
          max \in MaxArgs, unit \in UnitArgs \ {None}, scale \in ScaleArgs :
          ConstructNumeric(type, h, min, max, unit, scale) =>
             IF scale # None
             THEN exc' = "none" /\ chan'["ch"].scale = scale
             ELSE IF unit = PyStr("")
             THEN exc' = "none" /\ chan'["ch"].scale = PyFloat(10)
             ELSE IF unit.s \in DOMAIN units
             THEN exc' = "none" /\ chan'["ch"].scale = units[unit.s]
             ELSE exc' = "KeyError" /\ DOMAIN chan' = {}]_vars

\* C15's case: a constructor call failed on the unknown unit.
C15_Witness ==
    /\ "array" \in SinkIds /\ "single" \notin SinkIds
    /\ ChanIds = {}
    /\ exc = "KeyError"

\* C15's other cases: a channel whose scale came from the unit table.
C15_WitnessTable ==
    /\ ChanIds = {"ch"} /\ "path" \in DOMAIN chan["ch"]
    /\ IsNumeric("ch")
    /\ chan["ch"].unit = PyStr("kHz")
    /\ chan["ch"].scale = units["kHz"]

(***************************************************************************)
(* Properties of the dataset sinks' use of the store.                      *)
(***************************************************************************)
\* The store calls that need the entry to exist.
NeedEntry == {"append_to_dataset", "get_dataset"}

\* C16: a dataset sink calls append_to_dataset or get_dataset on its key
\* only in states where the entry exists and was set by this sink's own
\* push.  For AppendingDatasetSink: no push and no read makes such a call
\* before the first accepted push, where get_all() is [] and get_last() is
\* None, and no read changes the store.  For ScalarDatasetSink: get_last()
\* calls get_dataset only after a push and returns None before, leaving the
\* store alone.
C16_NoReadBeforeWrite ==
    /\ [](LET a == sink["appending"]
              acc == SelectSeq(recv["appending"], NotNone)
              calls == UNION {AppendingDatasetSink_push_calls(a, v) : v \in Val}
                           \cup AppendingDatasetSink_get_last_calls(a)
                           \cup AppendingDatasetSink_get_all_calls(a) IN
          /\ calls \cap NeedEntry # {} =>
                datasets[a.key].present /\ acc # <<>>
          /\ datasets[a.key].present <=> acc # <<>>
          /\ acc = <<>> =>
                /\ calls \cap NeedEntry = {}
                /\ AppendingDatasetSink_get_all_calls(a) = {}
                /\ AppendingDatasetSink_get_all(a, datasets) = <<>>
                /\ AppendingDatasetSink_get_last(a) = Ok(None))
    /\ [](LET s == sink["scalar"] IN
          /\ ScalarDatasetSink_get_last_calls(s) \cap NeedEntry # {} =>
                datasets[s.key].present /\ recv["scalar"] # <<>>
          /\ datasets[s.key].present <=> recv["scalar"] # <<>>
          /\ recv["scalar"] = <<>> =>
                /\ ScalarDatasetSink_get_last_calls(s) = {}
                /\ ScalarDatasetSink_get_last(s, datasets) = Ok(None))
    /\ [][\A s \in {"appending", "scalar"} :
             (SinkGetLast(s) \/ SinkGetAll(s)) =>
                UNCHANGED <<sink, datasets, recv>>]_vars

\* C16's case: the appending sink was read after a refused push and before
\* any accepted one, the scalar sink after a push.
C16_Witness ==
    /\ {"appending", "scalar"} \subseteq SinkIds /\ ChanIds = {}
    /\ recv["appending"] = <<None>>
    /\ ~datasets[sink["appending"].key].present
    /\ recv["scalar"] # <<>>
    /\ ScalarDatasetSink_get_last_calls(sink["scalar"]) = {"get_dataset"}
    /\ exc = "none"

(***************************************************************************)
(* Further properties of the channels.                                     *)
(***************************************************************************)
\* What a push body run on channel c with raw_value does to the sinks when
\* the channel's sink is cur: nothing to any other sink, and one call of
\* cur's push with the coerced value when there is one.
ForwardsTo(c, cur, raw_value) ==
    /\ \A s \in SinkIds \ {cur} : recv'[s] = recv[s] /\ sink'[s] = sink[s]
    /\ (cur \in SinkIds /\ coerce_to_type(chan[c].type, raw_value).exc = "none") =>
          recv'[cur] = Append(recv[cur], coerce_to_type(chan[c].type, raw_value).val)

\* C17: set_sink(s2) on a channel whose sink is s1 replaces the reference
\* and nothing else: no sink's contents change, nothing in flight changes
\* and a numeric channel's get_last() is as before; a push body run
\* afterwards calls the push of the channel's current sink only, so s1 gets
\* no further value.
C17_SetSinkFrame ==
    [][/\ \A c \in ChanIds, s2 \in SinkIds :
            SetSink(c, s2) =>
               /\ chan'[c] = [chan[c] EXCEPT !.sink = s2]
               /\ UNCHANGED <<sink, datasets, recv, inflight, issued>>
               /\ IsNumeric(c) =>
                     NumericChannel_get_last(chan'[c]) = NumericChannel_get_last(chan[c])
       /\ \A c \in ChanIds, v \in Val :
            Push(c, v) => ForwardsTo(c, chan[c].sink, v)
       /\ Deliver =>
            ForwardsTo(Head(inflight).ch, chan[Head(inflight).ch].sink,
                       Head(inflight).raw)]_vars

\* C17's case: three pushes, one of which reached the first sink and, the
\* sink having been replaced, two the second.
C17_Witness ==
    /\ ChanIds = {"ch"} /\ SinkIds = {"single", "array"}
    /\ "path" \notin DOMAIN chan["ch"]
    /\ chan["ch"].sink = "array"
    /\ Len(recv["single"]) = 1
    /\ Len(recv["array"]) = 2
    /\ Len(issued["ch"]) = 3
    /\ inflight = <<>>

(***************************************************************************)
(* Properties of a scan over several channels.                             *)
(***************************************************************************)
\* The sink set on channel c.
SinkOf(c) == chan[c].sink

\* All points pushed so far are complete and delivered.
PointsDone ==
    /\ inflight = <<>>
    /\ \A c, d \in ChanIds : Len(issued[c]) = Len(issued[d])

\* Every value issued to channel c is one its type coerces.
AllCoerce(c) ==
    \A i \in 1..Len(issued[c]) :
        coerce_to_type(chan[c].type, issued[c][i]).exc = "none"

\* C18 as stated: every push body run with a sink set calls that sink's push
\* exactly once, so that with an ArraySink per channel and one push per
\* channel and data point, once everything is delivered all sinks hold as
\* many values as there are points.
C18_OncePerPush ==
    /\ [][Deliver =>
             LET s == SinkOf(Head(inflight).ch) IN
             Len(recv'[s]) = Len(recv[s]) + 1]_vars
    /\ [](PointsDone =>
             \A c \in ChanIds :
                 Len(ArraySink_get_all(sink[SinkOf(c)])) = Len(issued[c]))

\* C18: a push body run with a sink set calls that sink's push exactly once,
\* with the coerced value, when the value coerces, and not at all when the
\* coercion raises; so with an ArraySink per channel and one push per
\* channel and data point, all of values that coerce, once everything is
\* delivered every sink holds one value per point, the i-th being the
\* coerced value of the i-th point.
C18_OncePerCoercedPush ==
    /\ [][Deliver =>
             LET m == Head(inflight)
                 s == SinkOf(m.ch)
                 r == coerce_to_type(chan[m.ch].type, m.raw) IN
             /\ \A x \in SinkIds \ {s} : recv'[x] = recv[x]
             /\ recv'[s] = IF r.exc = "none" THEN Append(recv[s], r.val)
                           ELSE recv[s]]_vars
    /\ [](PointsDone /\ (\A c \in ChanIds : AllCoerce(c)) =>
             \A c \in ChanIds :
                 ArraySink_get_all(sink[SinkOf(c)]) =
                     [i \in 1..Len(issued[c]) |->
                         coerce_to_type(chan[c].type, issued[c][i]).val])

\* C18's case: two points delivered, with different values, some delivered
\* while later ones were already in flight.
C18_Witness ==
    /\ ChanIds = {"c1", "c2"}
    /\ PointsDone
    /\ \A c \in ChanIds :
          /\ AllCoerce(c)
          /\ Len(issued[c]) = MaxPoints
          /\ issued[c][1] # issued[c][2]
          /\ Len(ArraySink_get_all(sink[SinkOf(c)])) = MaxPoints

(***************************************************************************)
(* Properties of the numeric channel's cache against its sink.             *)
(***************************************************************************)
\* Channel c is numeric and has the ArraySink set.
NumericWithArray(c) == IsNumeric(c) /\ chan[c].sink = "array"

\* C19 as stated: for a numeric channel with an ArraySink set throughout,
\* the sink holds the coerced values of a prefix of the pushes issued, and
\* whenever nothing is in flight (and get_last() of the channel has a value,
\* a push having been issued) the sink's get_last() is the coercion of the
\* channel's get_last().
C19_SinkFollowsCache ==
    \A c \in ChanIds :
        NumericWithArray(c) =>
            /\ ArraySink_get_all(sink["array"]) =
                  CoercedOf(chan[c].type, Delivered(c))
            /\ (inflight = <<>> /\ issued[c] # <<>>) =>
                  /\ NumericChannel_get_last(chan[c]).exc = "none"
                  /\ ArraySink_get_last(sink["array"]) =
                        coerce_to_type(chan[c].type,
                                       NumericChannel_get_last(chan[c]).val)

\* C19: for a numeric channel with an ArraySink set throughout, the sink
\* holds the coerced values of those pushes of a prefix of the pushes issued
\* whose values coerce, while get_last() of the channel is the raw value
\* issued last, which may be ahead of the sink; and whenever nothing is in
\* flight, a push has been issued and the value issued last coerces, the
\* sink's get_last() is the coercion of the channel's get_last().
C19_SinkFollowsCoercedCache ==
    \A c \in ChanIds :
        NumericWithArray(c) =>
            /\ Len(Delivered(c)) <= Len(issued[c])
            /\ ArraySink_get_all(sink["array"]) =
                  CoercedOf(chan[c].type, Delivered(c))
            /\ issued[c] # <<>> =>
                  NumericChannel_get_last(chan[c]) = Ok(Last(issued[c]))
            /\ (/\ inflight = <<>>
                /\ issued[c] # <<>>
                /\ coerce_to_type(chan[c].type, Last(issued[c])).exc = "none") =>
                  ArraySink_get_last(sink["array"]) =
                      coerce_to_type(chan[c].type,
                                     NumericChannel_get_last(chan[c]).val)

\* C19's case: three pushes delivered, the last one of a value that differs
\* from the earlier ones and that the coercion changes.
C19_Witness ==
    \E c \in ChanIds :
        /\ NumericWithArray(c)
        /\ Len(issued[c]) = 3
        /\ inflight = <<>>
        /\ Len(ArraySink_get_all(sink["array"])) = 3
        /\ issued[c][1] # issued[c][3]
        /\ issued[c][2] # issued[c][3]
        /\ ArraySink_get_last(sink["array"]) # NumericChannel_get_last(chan[c])

\* C19's other case: the cache is ahead of the sink.
C19_WitnessAhead ==
    \E c \in ChanIds :
        /\ NumericWithArray(c)
        /\ Len(inflight) = 2
        /\ Len(ArraySink_get_all(sink["array"])) = 1
        /\ ArraySink_get_last(sink["array"]) #
              coerce_to_type(chan[c].type, NumericChannel_get_last(chan[c]).val)

\* The coercion of channel c raises on value v.
Rejects(c, v) == coerce_to_type(chan[c].type, v).exc # "none"

\* C20: NumericChannel.push writes the raw value to the cache and sets the
\* flag before the body coerces and forwards, and nothing undoes it: a push
\* of a value the coercion rejects raises (at once on the host, at delivery
\* from a kernel), no sink is called, and get_last() from the push on
\* returns the rejected raw value without raising.
C20_RejectedValueCached ==
    /\ [](\A c \in ChanIds :
            (IsNumeric(c) /\ issued[c] # <<>> /\ Rejects(c, Last(issued[c]))) =>
                NumericChannel_get_last(chan[c]) = Ok(Last(issued[c])))
    /\ [][/\ \A c \in ChanIds, v \in Val :
               (IsNumeric(c) /\ Rejects(c, v)) =>
                  /\ Push(c, v) =>
                        /\ exc' = coerce_to_type(chan[c].type, v).exc
                        /\ UNCHANGED <<sink, datasets, recv>>
                        /\ NumericChannel_get_last(chan'[c]) = Ok(v)
                  /\ KernelPush(c, v) =>
                        /\ UNCHANGED <<sink, datasets, recv>>
                        /\ NumericChannel_get_last(chan'[c]) = Ok(v)
          /\ (Deliver /\ IsNumeric(Head(inflight).ch)
                      /\ Rejects(Head(inflight).ch, Head(inflight).raw)) =>
               /\ exc' = coerce_to_type(chan[Head(inflight).ch].type,
                                        Head(inflight).raw).exc
               /\ UNCHANGED <<chan, sink, datasets, recv>>]_vars

\* C20's case: the first push to a numeric channel with a sink set was
\* rejected, and get_last() returns its value.
C20_Witness ==
    \E c \in ChanIds :
        /\ IsNumeric(c)
        /\ chan[c].sink \in SinkIds
        /\ Len(issued[c]) = 1
        /\ inflight = <<>>
        /\ exc \in {"ValueError", "TypeError"}
        /\ \A s \in SinkIds : recv[s] = <<>>
        /\ NumericChannel_get_last(chan[c]) = Ok(issued[c][1])
        /\ Rejects(c, issued[c][1])
====
